---- MODULE Spec2Model ----
(***************************************************************************)
(* A model of repo_to_agent/cli.py: index_repo walks a directory tree,     *)
(* prunes the directories of SKIP_DIRS, skips files by extension, by name  *)
(* and by guessed media type, reads the others as UTF-8 text (truncated    *)
(* to max_chars), and joins "### <relative path>\n<content>" sections into *)
(* one document, logging one structured event per decision.                *)
(*                                                                         *)
(* Text is modelled as sequences of one-character strings, so that suffix  *)
(* extraction, lower-casing, truncation, path formatting and joining are   *)
(* computed character by character as the code computes them.              *)
(***************************************************************************)
EXTENDS Integers, Sequences, FiniteSets, TLC

(***************************************************************************)
(* Bounds of the model.                                                    *)
(***************************************************************************)
\* the longest file listing of a flat root directory
MaxFiles == 2
\* the most subdirectories of a root directory
MaxDirs == 2

(***************************************************************************)
(* Characters and text.                                                    *)
(***************************************************************************)
DOT == "."
SEP == "/"
NL == "\n"

UpperChars == <<"A", "B", "C", "D", "E", "F", "G", "H", "I", "J", "K", "L", "M",
                "N", "O", "P", "Q", "R", "S", "T", "U", "V", "W", "X", "Y", "Z">>
LowerChars == <<"a", "b", "c", "d", "e", "f", "g", "h", "i", "j", "k", "l", "m",
                "n", "o", "p", "q", "r", "s", "t", "u", "v", "w", "x", "y", "z">>

\* str.lower() on one character
LowerChar(c) ==
    IF \E i \in 1..Len(UpperChars) : UpperChars[i] = c
    THEN LowerChars[CHOOSE i \in 1..Len(UpperChars) : UpperChars[i] = c]
    ELSE c

\* str.lower()
Lower(s) == [i \in 1..Len(s) |-> LowerChar(s[i])]

\* n copies of the character c
Rep(c, n) == [i \in 1..n |-> c]

\* str.rfind(c): the last index of c in s, 0 when absent (Python's -1)
RFind(s, c) ==
    IF \E i \in 1..Len(s) : s[i] = c
    THEN CHOOSE i \in 1..Len(s) : s[i] = c /\ \A j \in (i + 1)..Len(s) : s[j] # c
    ELSE 0

\* sep.join(parts)
RECURSIVE Join(_, _)
Join(parts, sep) ==
    IF parts = <<>> THEN <<>>
    ELSE IF Len(parts) = 1 THEN parts[1]
    ELSE parts[1] \o sep \o Join(Tail(parts), sep)

(***************************************************************************)
(* The fixed policy tables.                                                *)
(***************************************************************************)
SKIP_DIRS ==
    { <<"n", "o", "d", "e", "_", "m", "o", "d", "u", "l", "e", "s">>,
      <<".", "v", "e", "n", "v">>,
      <<"_", "_", "p", "y", "c", "a", "c", "h", "e", "_", "_">>,
      <<".", "g", "i", "t">> }

\* SKIP_EXTS without ".png"
SKIP_EXTS_NoPng ==
    { <<".", "x", "l", "s", "x">>, <<".", "z", "i", "p">>, <<".", "j", "p", "g">>,
      <<".", "j", "p", "e", "g">>, <<".", "g", "i", "f">>,
      <<".", "e", "x", "e">>, <<".", "d", "l", "l">>, <<".", "p", "y", "c">>,
      <<".", "s", "o">> }

SKIP_EXTS ==
    { <<".", "x", "l", "s", "x">>, <<".", "z", "i", "p">>, <<".", "j", "p", "g">>,
      <<".", "j", "p", "e", "g">>, <<".", "p", "n", "g">>, <<".", "g", "i", "f">>,
      <<".", "e", "x", "e">>, <<".", "d", "l", "l">>, <<".", "p", "y", "c">>,
      <<".", "s", "o">> }

SKIP_FILES == { <<".", "g", "i", "t", "i", "g", "n", "o", "r", "e">> }

\* read_text_file's default max_chars
MAX_CHARS == 5000

TRUNC_MARKER == <<NL, ".", ".", ".", "[", "t", "r", "u", "n", "c", "a", "t", "e", "d", "]">>

HEADER_PREFIX == <<"#", "#", "#", " ">>

(***************************************************************************)
(* Paths (pathlib): an anchor ("/" or empty) and the name components.      *)
(***************************************************************************)
MkPath(anchor, parts) == [anchor |-> anchor, parts |-> parts]

\* Path / name
PathJoin(p, name) == [p EXCEPT !.parts = @ \o <<name>>]

\* Path.name
PathName(p) == IF p.parts = <<>> THEN <<>> ELSE p.parts[Len(p.parts)]

\* str(Path)
PathStr(p) ==
    IF p.anchor = <<>> /\ p.parts = <<>> THEN <<DOT>>
    ELSE p.anchor \o Join(p.parts, <<SEP>>)

\* Path.suffix: name[i:] for the last dot at i when 0 < i < len(name) - 1
\* (0-based), the empty string otherwise
Suffix(p) ==
    LET name == PathName(p)
        i == RFind(name, DOT)
    IN IF 1 < i /\ i < Len(name) THEN SubSeq(name, i, Len(name)) ELSE <<>>

\* Path.relative_to(other); <<"ValueError">> marks the exception
RelativeTo(p, other) ==
    IF /\ p.anchor = other.anchor
       /\ Len(other.parts) <= Len(p.parts)
       /\ SubSeq(p.parts, 1, Len(other.parts)) = other.parts
    THEN MkPath(<<>>, SubSeq(p.parts, Len(other.parts) + 1, Len(p.parts)))
    ELSE MkPath(<<>>, <<<<"ValueError">>>>)

\* the process's working directory
Cwd == MkPath(<<SEP>>, << <<"w">> >>)

\* Path(repo_path).resolve(), for paths without symlinks or ".."
Resolve(p) == IF p.anchor = <<>> THEN MkPath(Cwd.anchor, Cwd.parts \o p.parts) ELSE p

(***************************************************************************)
(* mimetypes.guess_type, for the part of its tables the modelled names     *)
(* reach.  An optional value is a sequence: <<>> is None, <<v>> is v.      *)
(***************************************************************************)
None == <<>>
Some(v) == <<v>>

\* posixpath.splitext on a base name: [base, ext]; the extension starts at
\* the last dot unless only dots precede it
SplitExt(name) ==
    LET i == RFind(name, DOT)
    IN IF i > 0 /\ \E j \in 1..(i - 1) : name[j] # DOT
       THEN [base |-> SubSeq(name, 1, i - 1), ext |-> SubSeq(name, i, Len(name))]
       ELSE [base |-> name, ext |-> <<>>]

\* mimetypes.encodings_map
EncodingsMap(ext) ==
    CASE ext = <<".", "g", "z">> -> Some(<<"g", "z", "i", "p">>)
      [] ext = <<".", "Z">> -> Some(<<"c", "o", "m", "p", "r", "e", "s", "s">>)
      [] ext = <<".", "b", "z", "2">> -> Some(<<"b", "z", "i", "p", "2">>)
      [] ext = <<".", "x", "z">> -> Some(<<"x", "z">>)
      [] OTHER -> None

\* mimetypes.types_map (strict)
TypesMap(ext) ==
    CASE ext = <<".", "t", "x", "t">> ->
            Some(<<"t", "e", "x", "t", "/", "p", "l", "a", "i", "n">>)
      [] ext = <<".", "m", "d">> ->
            Some(<<"t", "e", "x", "t", "/", "m", "a", "r", "k", "d", "o", "w", "n">>)
      [] ext = <<".", "p", "n", "g">> ->
            Some(<<"i", "m", "a", "g", "e", "/", "p", "n", "g">>)
      [] ext = <<".", "j", "p", "g">> ->
            Some(<<"i", "m", "a", "g", "e", "/", "j", "p", "e", "g">>)
      [] ext = <<".", "j", "s", "o", "n">> ->
            Some(<<"a", "p", "p", "l", "i", "c", "a", "t", "i", "o", "n", "/", "j", "s", "o", "n">>)
      [] ext = <<".", "p", "y", "c">> ->
            Some(<<"a", "p", "p", "l", "i", "c", "a", "t", "i", "o", "n", "/",
                   "x", "-", "p", "y", "t", "h", "o", "n", "-", "c", "o", "d", "e">>)
      [] OTHER -> None

\* mimetypes.guess_type(file_path)[0]
GuessType(file_path) ==
    LET first == SplitExt(PathName(file_path))
        ext == IF EncodingsMap(first.ext) # None
               THEN SplitExt(first.base).ext
               ELSE first.ext
    IN IF TypesMap(ext) # None THEN TypesMap(ext) ELSE TypesMap(Lower(ext))

\* str.startswith
StartsWith(s, prefix) ==
    Len(prefix) <= Len(s) /\ SubSeq(s, 1, Len(prefix)) = prefix

(***************************************************************************)
(* Structured log events (OTELJsonFormatter.format): the base fields of a  *)
(* record, overridden by the caller's keyword fields.                      *)
(***************************************************************************)
\* OTELJsonFormatter.map_severity
map_severity(level) ==
    CASE level = "DEBUG" -> 5
      [] level = "INFO" -> 9
      [] level = "WARNING" -> 13
      [] level = "ERROR" -> 17
      [] level = "CRITICAL" -> 21
      [] OTHER -> 1

\* OTELJsonFormatter.format: base.update(record.extra)
Format(level, message, extra) ==
    extra @@ [severity_text |-> level,
              severity_number |-> map_severity(level),
              message |-> message]

log_info(message, extra) == Format("INFO", message, extra)

log_warning(message, extra) == Format("WARNING", message, extra)

(***************************************************************************)
(* The Classifier.                                                         *)
(***************************************************************************)
\* is_binary_file: [ret, events]
is_binary_file(file_path) ==
    LET mime_type == GuessType(file_path)
    IN IF mime_type # None /\ ~StartsWith(mime_type[1], <<"t", "e", "x", "t">>)
       THEN [ret |-> TRUE,
             events |-> << log_info("Skipping binary file",
                                    [file_path |-> PathStr(file_path)]) >>]
       ELSE [ret |-> FALSE, events |-> <<>>]

\* should_skip_file with the content-type check first
should_skip_file_BinaryFirst(file_path, metrics) ==
    IF is_binary_file(file_path).ret
    THEN [ret |-> TRUE,
          metrics |-> [metrics EXCEPT !.skipped = @ + 1],
          events |-> is_binary_file(file_path).events]
    ELSE IF Lower(Suffix(file_path)) \in SKIP_EXTS
    THEN [ret |-> TRUE,
          metrics |-> [metrics EXCEPT !.skipped = @ + 1],
          events |-> << log_info("Skipping by extension",
                                 [file_name |-> PathName(file_path),
                                  file_path |-> PathStr(file_path)]) >>]
    ELSE IF PathName(file_path) \in SKIP_FILES
    THEN [ret |-> TRUE,
          metrics |-> [metrics EXCEPT !.skipped = @ + 1],
          events |-> << log_info("Skipping by filename",
                                 [file_name |-> PathName(file_path),
                                  file_path |-> PathStr(file_path)]) >>]
    ELSE [ret |-> FALSE, metrics |-> metrics, events |-> <<>>]

\* should_skip_file: [ret, metrics, events]
should_skip_file(file_path, metrics) ==
    IF Lower(Suffix(file_path)) \in SKIP_EXTS
    THEN [ret |-> TRUE,
          metrics |-> [metrics EXCEPT !.skipped = @ + 1],
          events |-> << log_info("Skipping by extension",
                                 [file_name |-> PathName(file_path),
                                  file_path |-> PathStr(file_path)]) >>]
    ELSE IF PathName(file_path) \in SKIP_FILES
    THEN [ret |-> TRUE,
          metrics |-> [metrics EXCEPT !.skipped = @ + 1],
          events |-> << log_info("Skipping by filename",
                                 [file_name |-> PathName(file_path),
                                  file_path |-> PathStr(file_path)]) >>]
    ELSE IF is_binary_file(file_path).ret
    THEN [ret |-> TRUE,
          metrics |-> [metrics EXCEPT !.skipped = @ + 1],
          events |-> is_binary_file(file_path).events]
    ELSE [ret |-> FALSE, metrics |-> metrics, events |-> <<>>]

(***************************************************************************)
(* The Content Reader.                                                     *)
(***************************************************************************)
\* what file_path.read_text(encoding="utf-8") does on a file holding `data`:
\* the decoded text, or the exception raised
ReadText(data) ==
    CASE data = "hello" -> [ok |-> TRUE, text |-> <<"h", "e", "l", "l", "o">>]
      [] data = "ignored" -> [ok |-> TRUE, text |-> <<"i", "g", "n", "o", "r", "e", "d">>]
      [] data = "empty" -> [ok |-> TRUE, text |-> <<>>]
      [] data = "x6000" -> [ok |-> TRUE, text |-> Rep("x", 6000)]
      [] data = "x5000" -> [ok |-> TRUE, text |-> Rep("x", MAX_CHARS)]
      [] data = "x4999ab" -> [ok |-> TRUE, text |-> Rep("x", MAX_CHARS - 1) \o <<"a", "b">>]
      [] data = "denied" -> [ok |-> FALSE, error |-> "[Errno 13] Permission denied"]
      [] OTHER -> [ok |-> FALSE, error |-> "'utf-8' codec can't decode byte 0x89"]

\* content[:max_chars]
Prefix(content, n) == SubSeq(content, 1, IF n < Len(content) THEN n ELSE Len(content))

\* read_text_file truncating at len(content) >= max_chars
read_text_file_TruncAtLimit(file_path, data, metrics, max_chars) ==
    LET r == ReadText(data)
    IN IF r.ok
       THEN IF Len(r.text) >= max_chars
            THEN [content |-> Some(Prefix(r.text, max_chars) \o TRUNC_MARKER),
                  metrics |-> metrics,
                  events |-> << log_info("Truncating large file",
                                         [file_path |-> PathStr(file_path)]) >>]
            ELSE [content |-> Some(r.text), metrics |-> metrics, events |-> <<>>]
       ELSE [content |-> None,
             metrics |-> [metrics EXCEPT !.errors = @ + 1],
             events |-> << log_warning("Unreadable file",
                                       [file_path |-> PathStr(file_path),
                                        error |-> r.error]) >>]

\* read_text_file logging the failure with log_info
read_text_file_InfoOnError(file_path, data, metrics, max_chars) ==
    LET r == ReadText(data)
    IN IF r.ok
       THEN IF Len(r.text) > max_chars
            THEN [content |-> Some(Prefix(r.text, max_chars) \o TRUNC_MARKER),
                  metrics |-> metrics,
                  events |-> << log_info("Truncating large file",
                                         [file_path |-> PathStr(file_path)]) >>]
            ELSE [content |-> Some(r.text), metrics |-> metrics, events |-> <<>>]
       ELSE [content |-> None,
             metrics |-> [metrics EXCEPT !.errors = @ + 1],
             events |-> << log_info("Unreadable file",
                                    [file_path |-> PathStr(file_path),
                                     error |-> r.error]) >>]

\* read_text_file: [content (None or Some), metrics, events]
read_text_file(file_path, data, metrics, max_chars) ==
    LET r == ReadText(data)
    IN IF r.ok
       THEN IF Len(r.text) > max_chars
            THEN [content |-> Some(Prefix(r.text, max_chars) \o TRUNC_MARKER),
                  metrics |-> metrics,
                  events |-> << log_info("Truncating large file",
                                         [file_path |-> PathStr(file_path)]) >>]
            ELSE [content |-> Some(r.text), metrics |-> metrics, events |-> <<>>]
       ELSE [content |-> None,
             metrics |-> [metrics EXCEPT !.errors = @ + 1],
             events |-> << log_warning("Unreadable file",
                                       [file_path |-> PathStr(file_path),
                                        error |-> r.error]) >>]

(***************************************************************************)
(* The trees index_repo is run over.  A directory is                       *)
(* [name, listable, files, dirs]: files and dirs in the order the          *)
(* directory listing yields them; listable is FALSE when os.scandir fails  *)
(* on the directory.  A file is [name, data], data naming its content.     *)
(***************************************************************************)
MkFile(name, data) == [name |-> name, data |-> data]

MkDir(name, listable, files, dirs) ==
    [name |-> name, listable |-> listable, files |-> files, dirs |-> dirs]

F_a == MkFile(<<"a", ".", "t", "x", "t">>, "hello")
F_png == MkFile(<<"b", ".", "p", "n", "g">>, "binary")
F_big == MkFile(<<"b", "i", "g", ".", "t", "x", "t">>, "x6000")
F_gitignore == MkFile(<<".", "g", "i", "t", "i", "g", "n", "o", "r", "e">>, "hello")
F_json == MkFile(<<"e", ".", "j", "s", "o", "n">>, "hello")
F_make == MkFile(<<"M", "a", "k", "e", "f", "i", "l", "e">>, "x5000")
F_jpg == MkFile(<<"P", "I", "C", ".", "J", "P", "G">>, "binary")
F_secret == MkFile(<<"s", "e", "c", "r", "e", "t", ".", "t", "x", "t">>, "denied")
F_edge == MkFile(<<"n", ".", "m", "d">>, "x4999ab")
F_gz == MkFile(<<"l", "o", "g", ".", "t", "x", "t", ".", "g", "z">>, "binary")
F_c == MkFile(<<"c", ".", "t", "x", "t">>, "ignored")
F_pyc == MkFile(<<"m", ".", "p", "y", "c">>, "binary")

N_node_modules == <<"n", "o", "d", "e", "_", "m", "o", "d", "u", "l", "e", "s">>
N_Node_Modules == <<"N", "o", "d", "e", "_", "M", "o", "d", "u", "l", "e", "s">>
N_git == <<".", "g", "i", "t">>
N_venv == <<".", "v", "e", "n", "v">>
N_pycache == <<"_", "_", "p", "y", "c", "a", "c", "h", "e", "_", "_">>
N_src == <<"s", "r", "c">>
N_docs == <<"d", "o", "c", "s">>
N_lib == <<"l", "i", "b">>
N_locked == <<"l", "o", "c", "k", "e", "d">>

FilePool == {F_a, F_png, F_big, F_gitignore, F_json, F_make, F_jpg, F_secret, F_edge, F_gz}

DirPool ==
    { MkDir(N_src, TRUE, <<F_a, F_secret>>,
            << MkDir(N_node_modules, TRUE, <<F_c>>, <<>>) >>),
      MkDir(N_node_modules, TRUE, <<F_c>>,
            << MkDir(N_git, TRUE, <<F_c>>, <<>>) >>),
      MkDir(N_Node_Modules, TRUE, <<F_c>>, <<>>),
      MkDir(N_locked, FALSE, <<F_a>>,
            << MkDir(N_venv, TRUE, <<F_c>>, <<>>) >>),
      MkDir(N_pycache, TRUE, <<F_pyc>>, <<>>),
      MkDir(N_docs, TRUE, <<F_edge>>,
            << MkDir(N_venv, TRUE, <<F_c>>, <<>>),
               MkDir(N_lib, TRUE, <<F_json, F_a>>, <<>>) >>) }

\* the sequences of at most n distinct elements of S
SeqsNoDup(S, n) ==
    UNION { { q \in [1..k -> S] : \A i, j \in 1..k : i # j => q[i] # q[j] } : k \in 0..n }

\* flat roots: any listing of at most MaxFiles files
FlatTrees == { MkDir(<<>>, TRUE, fs, <<>>) : fs \in SeqsNoDup(FilePool, MaxFiles) }

\* roots with subdirectories, and the root that cannot be listed
DeepTrees ==
    { MkDir(<<>>, TRUE, fs, ds) :
        fs \in SeqsNoDup({F_a, F_png}, 1), ds \in SeqsNoDup(DirPool, MaxDirs) }
    \cup { MkDir(<<>>, FALSE, <<F_a>>, << MkDir(N_node_modules, TRUE, <<F_c>>, <<>>) >>) }

\* the root of the a.txt / b.png / node_modules/c.txt / big.txt scenario, in
\* every listing order
ScenarioTrees ==
    { MkDir(<<>>, TRUE, fs, << MkDir(N_node_modules, TRUE, <<F_c>>, <<>>) >>) :
        fs \in { q \in SeqsNoDup({F_a, F_png, F_big}, 3) : Len(q) = 3 } }

Trees == FlatTrees \cup DeepTrees \cup ScenarioTrees

\* the repo_path arguments: "." and "/srv/repo"
RepoArgs == { MkPath(<<>>, <<>>), MkPath(<<SEP>>, << <<"s", "r", "v">>, <<"r", "e", "p", "o">> >>) }

(***************************************************************************)
(* The state of one run of index_repo.                                     *)
(***************************************************************************)
VARIABLES
    tree,        \* the directory tree at the resolved root
    arg,         \* index_repo's argument
    pc,          \* "init", "walk" (in os.walk), "files" (in the file loop), "done"
    repo_path,   \* the resolved root
    metrics,     \* the counters
    file_index,  \* the sections, in traversal order
    log,         \* the events emitted so far
    stack,       \* os.walk's pending directories: [path, node], next first
    cur_root,    \* the directory os.walk yielded last
    pending,     \* the files of cur_root not yet processed
    result,      \* None, or Some(the returned document)
    yielded,     \* the paths of the directories os.walk has yielded
    visited,     \* the paths of the files the loop has processed, in order
    read_calls,  \* read_text_file's calls, in order: [path, data, content]
    scan_failed  \* the paths of the directories os.walk could not list

vars == <<tree, arg, pc, repo_path, metrics, file_index, log, stack, cur_root,
          pending, result, yielded, visited, read_calls, scan_failed>>

Init ==
    /\ tree \in Trees
    /\ arg \in RepoArgs
    /\ pc = "init"
    /\ repo_path = arg
    /\ metrics = [indexed |-> 0, skipped |-> 0, errors |-> 0]
    /\ file_index = <<>>
    /\ log = <<>>
    /\ stack = <<>>
    /\ cur_root = arg
    /\ pending = <<>>
    /\ result = None
    /\ yielded = {}
    /\ visited = <<>>
    /\ read_calls = <<>>
    /\ scan_failed = {}

\* index_repo, up to the loop: resolve the root, fresh metrics, start event
Start ==
    /\ pc = "init"
    /\ repo_path' = Resolve(arg)
    /\ metrics' = [indexed |-> 0, skipped |-> 0, errors |-> 0]
    /\ log' = << log_info("Indexing repository",
                          [event_name |-> "repo_scan_start",
                           file_path |-> PathStr(Resolve(arg))]) >>
    /\ file_index' = <<>>
    /\ stack' = << [path |-> Resolve(arg), node |-> tree] >>
    /\ pc' = "walk"
    /\ UNCHANGED <<tree, arg, cur_root, pending, result, yielded, visited, read_calls,
                   scan_failed>>

\* dirs[:] = [d for d in dirs if d not in SKIP_DIRS]
Prune(dirs) == SelectSeq(dirs, LAMBDA d : d.name \notin SKIP_DIRS)

\* WalkDirs after `dirs = [...]`, which rebinds the name and leaves the
\* list os.walk holds as it was
WalkDirs_Rebound(original_dirs, dirs) == original_dirs

\* the subdirectories os.walk descends into after the loop body: the slice
\* assignment dirs[:] = ... changes the list os.walk holds
WalkDirs(original_dirs, dirs) == dirs

\* skipped_dirs = set(original_dirs) - set(dirs)
SkippedDirs(original_dirs, dirs) ==
    { original_dirs[i].name : i \in 1..Len(original_dirs) }
        \ { dirs[i].name : i \in 1..Len(dirs) }

\* the orders in which a set may be iterated
Orders(S) == { q \in [1..Cardinality(S) -> S] : \A i, j \in 1..Cardinality(S) : i # j => q[i] # q[j] }

\* the "Skipping directory" event of one pruned name
SkipDirEvent(root, d) ==
    log_info("Skipping directory", [file_name |-> d, file_path |-> PathStr(PathJoin(root, d))])

\* WalkError as if the scandir error propagated out of os.walk
WalkError_Propagates ==
    /\ pc = "walk"
    /\ stack # <<>>
    /\ ~Head(stack).node.listable
    /\ pc' = "raised"
    /\ scan_failed' = scan_failed \cup {Head(stack).path}
    /\ UNCHANGED <<tree, arg, repo_path, metrics, file_index, log, stack, cur_root,
                   pending, result, yielded, visited, read_calls>>

\* os.walk fails to list the next directory: with onerror=None the error
\* is ignored and the directory yields nothing
WalkError ==
    /\ pc = "walk"
    /\ stack # <<>>
    /\ ~Head(stack).node.listable
    /\ stack' = Tail(stack)
    /\ scan_failed' = scan_failed \cup {Head(stack).path}
    /\ UNCHANGED <<tree, arg, pc, repo_path, metrics, file_index, log, cur_root,
                   pending, result, yielded, visited, read_calls>>

\* os.walk yields the next directory (top-down, pre-order); the loop body
\* prunes its subdirectories and logs each pruned name
WalkYield ==
    /\ pc = "walk"
    /\ stack # <<>>
    /\ Head(stack).node.listable
    /\ LET root == Head(stack).path
           node == Head(stack).node
           dirs == Prune(node.dirs)
           descend == WalkDirs(node.dirs, dirs)
       IN /\ \E order \in Orders(SkippedDirs(node.dirs, dirs)) :
                log' = log \o [i \in 1..Len(order) |-> SkipDirEvent(root, order[i])]
          /\ stack' = [i \in 1..Len(descend) |->
                          [path |-> PathJoin(root, descend[i].name), node |-> descend[i]]]
                      \o Tail(stack)
          /\ cur_root' = root
          /\ pending' = node.files
          /\ yielded' = yielded \cup {root}
          /\ pc' = IF node.files = <<>> THEN "walk" ELSE "files"
    /\ UNCHANGED <<tree, arg, repo_path, metrics, file_index, result, visited, read_calls,
                   scan_failed>>

\* f"### {rel_path}\n{content}"
Section(rel_path, content) == HEADER_PREFIX \o PathStr(rel_path) \o <<NL>> \o content

\* the "Indexed file" event
IndexedEvent(file_path, file, rel_path) ==
    log_info("Indexed file", [file_path |-> PathStr(file_path),
                              file_name |-> file,
                              file_rel_path |-> PathStr(rel_path)])

\* ProcessOne with `metrics["indexed"] += 1` outside the `if content is not None`
ProcessOne_IndexedOnError(file_path, file, root_path, m) ==
    LET s == should_skip_file(file_path, m)
        r == read_text_file(file_path, file.data, s.metrics, MAX_CHARS)
        rel_path == RelativeTo(file_path, root_path)
        call == [path |-> file_path, data |-> file.data, content |-> r.content]
    IN IF s.ret
       THEN [metrics |-> s.metrics, events |-> s.events, sections |-> <<>>, reads |-> <<>>]
       ELSE [metrics |-> [r.metrics EXCEPT !.indexed = @ + 1],
             events |-> s.events \o r.events
                        \o (IF r.content # None
                            THEN << IndexedEvent(file_path, file.name, rel_path) >>
                            ELSE <<>>),
             sections |-> IF r.content # None
                          THEN << Section(rel_path, r.content[1]) >> ELSE <<>>,
             reads |-> << call >>]

\* ProcessOne without the `continue` after should_skip_file
ProcessOne_ReadsSkipped(file_path, file, root_path, m) ==
    LET s == should_skip_file(file_path, m)
        r == read_text_file(file_path, file.data, s.metrics, MAX_CHARS)
        rel_path == RelativeTo(file_path, root_path)
        call == [path |-> file_path, data |-> file.data, content |-> r.content]
    IN IF r.content # None
       THEN [metrics |-> [r.metrics EXCEPT !.indexed = @ + 1],
             events |-> s.events \o r.events
                        \o << IndexedEvent(file_path, file.name, rel_path) >>,
             sections |-> << Section(rel_path, r.content[1]) >>,
             reads |-> << call >>]
       ELSE [metrics |-> r.metrics, events |-> s.events \o r.events,
             sections |-> <<>>, reads |-> << call >>]

\* one iteration of `for file in files`: [metrics, events, sections, reads]
ProcessOne(file_path, file, root_path, m) ==
    LET s == should_skip_file(file_path, m)
        r == read_text_file(file_path, file.data, s.metrics, MAX_CHARS)
        rel_path == RelativeTo(file_path, root_path)
    IN IF s.ret
       THEN [metrics |-> s.metrics, events |-> s.events, sections |-> <<>>, reads |-> <<>>]
       ELSE IF r.content # None
       THEN [metrics |-> [r.metrics EXCEPT !.indexed = @ + 1],
             events |-> s.events \o r.events
                        \o << IndexedEvent(file_path, file.name, rel_path) >>,
             sections |-> << Section(rel_path, r.content[1]) >>,
             reads |-> << [path |-> file_path, data |-> file.data, content |-> r.content] >>]
       ELSE [metrics |-> r.metrics, events |-> s.events \o r.events,
             sections |-> <<>>,
             reads |-> << [path |-> file_path, data |-> file.data, content |-> r.content] >>]

ProcessFile ==
    /\ pc = "files"
    /\ pending # <<>>
    /\ LET file == Head(pending)
           file_path == PathJoin(cur_root, file.name)
           o == ProcessOne(file_path, file, repo_path, metrics)
       IN /\ metrics' = o.metrics
          /\ log' = log \o o.events
          /\ file_index' = file_index \o o.sections
          /\ read_calls' = read_calls \o o.reads
          /\ visited' = Append(visited, file_path)
    /\ pending' = Tail(pending)
    /\ pc' = IF Tail(pending) = <<>> THEN "walk" ELSE "files"
    /\ UNCHANGED <<tree, arg, repo_path, stack, cur_root, result, yielded, scan_failed>>

\* JoinIndex ending every section with the separator
JoinIndex_Trailing(index) == Join([i \in DOMAIN index |-> index[i] \o <<NL>>], <<>>)

\* "\n".join(file_index)
JoinIndex(index) == Join(index, <<NL>>)

\* the "Indexing complete" event
CompleteEvent(m) ==
    log_info("Indexing complete", [event_name |-> "repo_scan_end",
                                   file_indexed |-> m.indexed,
                                   file_skipped |-> m.skipped,
                                   file_errors |-> m.errors,
                                   char_count |-> m.char_count])

\* os.walk is exhausted: join, count, summary event, return
Finish ==
    /\ pc = "walk"
    /\ stack = <<>>
    /\ result' = Some(JoinIndex(file_index))
    /\ metrics' = [char_count |-> Len(JoinIndex(file_index))] @@ metrics
    /\ log' = Append(log, CompleteEvent([char_count |-> Len(JoinIndex(file_index))] @@ metrics))
    /\ pc' = "done"
    /\ UNCHANGED <<tree, arg, repo_path, file_index, stack, cur_root, pending,
                   yielded, visited, read_calls, scan_failed>>

Next == Start \/ WalkError \/ WalkYield \/ ProcessFile \/ Finish

Spec == Init /\ [][Next]_vars

(***************************************************************************)
(* Derived notions the properties are stated with.                        *)
(***************************************************************************)
\* the files of the directories the walk can reach (listable, and not below
\* a directory named in the prune set), in pre-order
RECURSIVE WalkedFiles(_, _), WalkedFilesOfDirs(_, _)
WalkedFiles(node, path) ==
    IF ~node.listable THEN <<>>
    ELSE [i \in 1..Len(node.files) |-> PathJoin(path, node.files[i].name)]
         \o WalkedFilesOfDirs(node.dirs, path)

WalkedFilesOfDirs(dirs, path) ==
    IF dirs = <<>> THEN <<>>
    ELSE (IF Head(dirs).name \in SKIP_DIRS THEN <<>>
          ELSE WalkedFiles(Head(dirs), PathJoin(path, Head(dirs).name)))
         \o WalkedFilesOfDirs(Tail(dirs), path)

\* the events that carry the path string ps
EventsAbout(ps) ==
    { i \in DOMAIN log : "file_path" \in DOMAIN log[i] /\ log[i].file_path = ps }

\* the events with the given message that carry the path string ps
EventsWith(message, ps) == { i \in EventsAbout(ps) : log[i].message = message }

SkipMessages == {"Skipping by extension", "Skipping by filename", "Skipping binary file"}

\* the file-skip events that carry the path string ps
SkipEventsAbout(ps) == { i \in EventsAbout(ps) : log[i].message \in SkipMessages }

\* the read_text_file calls made with path p
ReadsOf(p) == { i \in DOMAIN read_calls : read_calls[i].path = p }

(***************************************************************************)
(* C1.  As claimed: at the end of the traversal indexed + skipped is the   *)
(* number of files visited, also when a visited file failed to be read.    *)
(***************************************************************************)
C1_IndexedPlusSkippedIsVisited ==
    pc = "done" =>
        /\ visited = WalkedFiles(tree, repo_path)
        /\ metrics.indexed + metrics.skipped = Len(visited)

\* C1, amended: at the end of the traversal the files visited are exactly
\* the files of the directories the walk reaches (listable and not pruned),
\* in order, and indexed + skipped + errors is their number; indexed +
\* skipped falls short of it by the number of files that failed to be read.
C1_CountersSumToVisited ==
    pc = "done" =>
        /\ visited = WalkedFiles(tree, repo_path)
        /\ metrics.indexed + metrics.skipped + metrics.errors = Len(visited)
        /\ metrics.errors = Cardinality({ i \in DOMAIN read_calls : read_calls[i].content = None })

C1_Witness ==
    /\ pc = "done"
    /\ metrics.errors > 0
    /\ metrics.indexed > 0
    /\ metrics.skipped > 0
    /\ Len(visited) = 3

(***************************************************************************)
(* C2.  Every visited file gets exactly one outcome: after any prefix of   *)
(* the traversal indexed + skipped + errors is the number of files         *)
(* processed, each file's step adds exactly 1 to exactly one counter, and  *)
(* a skipped file is never passed to read_text_file.                       *)
(***************************************************************************)
C2_Outcome(p) ==
    LET skips == Cardinality(SkipEventsAbout(PathStr(p)))
        reads == Cardinality(ReadsOf(p))
    IN \/ skips = 1 /\ reads = 0
       \/ skips = 0 /\ reads = 1

C2_StateInv ==
    /\ metrics.indexed + metrics.skipped + metrics.errors = Len(visited)
    /\ \A i \in DOMAIN visited : C2_Outcome(visited[i])
    /\ metrics.skipped =
          Cardinality({ i \in DOMAIN visited : SkipEventsAbout(PathStr(visited[i])) # {} })
    /\ metrics.indexed + metrics.errors = Len(read_calls)

C2_Step ==
    Len(visited') = Len(visited) + 1 =>
        \/ /\ metrics'.indexed = metrics.indexed + 1
           /\ metrics'.skipped = metrics.skipped
           /\ metrics'.errors = metrics.errors
        \/ /\ metrics'.indexed = metrics.indexed
           /\ metrics'.skipped = metrics.skipped + 1
           /\ metrics'.errors = metrics.errors
           /\ read_calls' = read_calls
        \/ /\ metrics'.indexed = metrics.indexed
           /\ metrics'.skipped = metrics.skipped
           /\ metrics'.errors = metrics.errors + 1

\* C2: in every state indexed + skipped + errors is the number of files
\* processed so far and every processed file has exactly one outcome (one
\* skip event and no read, or one read and no skip event); every file's step
\* adds exactly 1 to exactly one of the three counters.
C2_ExactlyOneOutcome == [](C2_StateInv) /\ [][C2_Step]_vars

\* mid-traversal, one file of each outcome processed
C2_Witness ==
    /\ pc = "walk"
    /\ Len(visited) = 3
    /\ metrics.indexed = 1
    /\ metrics.skipped = 1
    /\ metrics.errors = 1

(***************************************************************************)
(* C3.  The scenario: a root holding a.txt ("hello"), b.png,               *)
(* node_modules/c.txt and big.txt (6000 'x').                              *)
(***************************************************************************)
C3_SectionA ==
    <<"#", "#", "#", " ", "a", ".", "t", "x", "t", "\n", "h", "e", "l", "l", "o">>

C3_SectionBig ==
    <<"#", "#", "#", " ", "b", "i", "g", ".", "t", "x", "t", "\n">>
    \o [i \in 1..5000 |-> "x"]
    \o <<"\n", ".", ".", ".", "[", "t", "r", "u", "n", "c", "a", "t", "e", "d", "]">>

\* a.txt is listed before big.txt
C3_AFirst ==
    \E i, j \in DOMAIN tree.files :
        i < j /\ tree.files[i] = F_a /\ tree.files[j] = F_big

\* the Document of the scenario: the two sections, in listing order
C3_Document ==
    /\ result # None
    /\ result[1] = IF C3_AFirst
                   THEN C3_SectionA \o <<"\n">> \o C3_SectionBig
                   ELSE C3_SectionBig \o <<"\n">> \o C3_SectionA
    /\ Len(file_index) = 2

\* b.png got exactly one event, with the given message
C3_PngSkippedAs(message) ==
    LET about == EventsAbout(PathStr(PathJoin(repo_path, F_png.name)))
    IN /\ Cardinality(about) = 1
       /\ \A i \in about : log[i].message = message

\* C3 as claimed: indexed=2, skipped=2, errors=0, b.png skipped by the
\* content-type check.
C3_ScenarioAsClaimed ==
    (tree \in ScenarioTrees /\ pc = "done") =>
        /\ C3_Document
        /\ metrics.indexed = 2
        /\ metrics.skipped = 2
        /\ metrics.errors = 0
        /\ C3_PngSkippedAs("Skipping binary file")

\* C3, amended: in the scenario the Document holds the section of a.txt
\* ("hello") and of big.txt (5000 'x' and the marker) and nothing else, and
\* the final metrics are indexed=2, skipped=1, errors=0, b.png being skipped
\* by the extension rule.
C3_Scenario ==
    (tree \in ScenarioTrees /\ pc = "done") =>
        /\ C3_Document
        /\ metrics.indexed = 2
        /\ metrics.skipped = 1
        /\ metrics.errors = 0
        /\ metrics.char_count = 15 + 1 + 12 + 5000 + 15
        /\ C3_PngSkippedAs("Skipping by extension")
        /\ \A i \in DOMAIN visited : PathName(visited[i]) # F_c.name

C3_Witness ==
    /\ tree \in ScenarioTrees
    /\ pc = "done"
    /\ Len(visited) = 3

(***************************************************************************)
(* C4.  Directories named in the prune set, at any depth below the root.   *)
(***************************************************************************)
\* every directory below node, reachable or not: [path, parent, name]
RECURSIVE DirsBelow(_, _)
DirsBelow(node, path) ==
    UNION { { [path |-> PathJoin(path, node.dirs[i].name),
               parent |-> path,
               name |-> node.dirs[i].name] }
            \cup DirsBelow(node.dirs[i], PathJoin(path, node.dirs[i].name))
          : i \in DOMAIN node.dirs }

\* the directories below the root whose name is in the prune set
PruneNamed == { d \in DirsBelow(tree, repo_path) : d.name \in SKIP_DIRS }

\* path p is d or lies beneath d
AtOrUnder(p, d) ==
    /\ p.anchor = d.anchor
    /\ Len(d.parts) <= Len(p.parts)
    /\ SubSeq(p.parts, 1, Len(d.parts)) = d.parts

\* the "Skipping directory" events of directory d
SkipDirEvents(d) ==
    { i \in EventsWith("Skipping directory", PathStr(d.path)) : log[i].file_name = d.name }

\* nothing at or beneath d is visited, read, indexed or counted
C4_Untouched(d) ==
    /\ \A y \in yielded : ~AtOrUnder(y, d.path)
    /\ \A i \in DOMAIN visited : ~AtOrUnder(visited[i], d.path)
    /\ \A i \in DOMAIN read_calls : ~AtOrUnder(read_calls[i].path, d.path)
    /\ \A i \in DOMAIN stack : ~AtOrUnder(stack[i].path, d.path)
    /\ \A i \in DOMAIN file_index :
          ~StartsWith(file_index[i],
                      <<"#", "#", "#", " ">>
                      \o Join(SubSeq(d.path.parts, Len(repo_path.parts) + 1, Len(d.path.parts)),
                              <<"/">>)
                      \o <<"/">>)
    /\ metrics.indexed + metrics.skipped + metrics.errors = Len(visited)

\* C4 as claimed: every directory named in the prune set, at any depth, is
\* untouched and gets exactly one "Skipping directory" event.
C4_OneEventPerPruneNamedDir ==
    pc # "init" =>
        \A d \in PruneNamed :
            /\ C4_Untouched(d)
            /\ pc = "done" => Cardinality(SkipDirEvents(d)) = 1

\* C4, amended: every directory named (case-sensitively) in the prune set,
\* at any depth below the root, is never descended into and nothing beneath
\* it is visited, read, indexed or counted; exactly one "Skipping directory"
\* event is emitted for it when the walk lists its parent directory, and
\* none when it never does (the parent lies beneath a pruned directory, or
\* could not be listed).
C4_PrunedBeforeDescent ==
    pc # "init" =>
        \A d \in PruneNamed :
            /\ C4_Untouched(d)
            /\ Cardinality(SkipDirEvents(d)) = IF d.parent \in yielded THEN 1 ELSE 0
            /\ (pc = "done" /\ d.parent \notin yielded) =>
                   \/ repo_path \in scan_failed
                   \/ \E e \in DirsBelow(tree, repo_path) :
                         /\ AtOrUnder(d.parent, e.path)
                         /\ (e.name \in SKIP_DIRS \/ e.path \in scan_failed)

C4_Witness ==
    /\ pc = "done"
    /\ \E d \in PruneNamed :
          d.parent # repo_path /\ d.parent \in yielded /\ Cardinality(SkipDirEvents(d)) = 1
    /\ \E d \in PruneNamed :
          d.parent \notin yielded /\ Cardinality(SkipDirEvents(d)) = 0
    /\ visited # <<>>

(***************************************************************************)
(* C5.  The truncation law of read_text_file.                              *)
(***************************************************************************)
C5_Marker == <<"\n", ".", ".", ".", "[", "t", "r", "u", "n", "c", "a", "t", "e", "d", "]">>

\* other limits the law is tried at
C5_Limits == {0, 1, 5, 4999, 5001}

\* the law for one call's file at limit L: what read_text_file returns and logs
C5_Law(call, L) ==
    LET t == ReadText(call.data)
        out == read_text_file(call.path, call.data, metrics, L)
    IN t.ok =>
        IF Len(t.text) > L
        THEN /\ out.content = << SubSeq(t.text, 1, L) \o C5_Marker >>
             /\ Len(out.content[1]) = L + 15
             /\ Len(out.events) = 1
             /\ out.events[1].message = "Truncating large file"
             /\ out.events[1].file_path = PathStr(call.path)
        ELSE /\ out.content = << t.text >>
             /\ out.events = <<>>

\* C5: a decoded file longer than L (5000 in index_repo) is returned as its
\* first L characters followed by "\n...[truncated]", of length L + 15, with
\* one "Truncating large file" event; a file of at most L characters is
\* returned unchanged with no such event.
C5_TruncationLaw ==
    /\ \A k \in DOMAIN read_calls :
        LET call == read_calls[k]
            t == ReadText(call.data)
            truncs == Cardinality(EventsWith("Truncating large file", PathStr(call.path)))
        IN t.ok =>
              IF Len(t.text) > 5000
              THEN /\ call.content = << SubSeq(t.text, 1, 5000) \o C5_Marker >>
                   /\ Len(call.content[1]) = 5000 + 15
                   /\ truncs = 1
              ELSE /\ call.content = << t.text >>
                   /\ truncs = 0
    /\ (read_calls # <<>> /\ visited[Len(visited)] = read_calls[Len(read_calls)].path) =>
           \A L \in C5_Limits : C5_Law(read_calls[Len(read_calls)], L)

\* a file of 6000, one of exactly 5000 and one of 5001 characters were read
C5_Witness ==
    /\ \E k \in DOMAIN read_calls :
          read_calls[k].data = "x5000" /\ Len(read_calls[k].content[1]) = 5000
    /\ \E k \in DOMAIN read_calls :
          read_calls[k].data \in {"x6000", "x4999ab"} /\ Len(read_calls[k].content[1]) = 5015

(***************************************************************************)
(* C6.  A failed read.                                                     *)
(***************************************************************************)
\* the step made a read_text_file call on a file whose read fails
C6_ReadFailed ==
    /\ Len(read_calls') = Len(read_calls) + 1
    /\ ~ReadText(read_calls'[Len(read_calls')].data).ok

C6_Step ==
    C6_ReadFailed =>
        LET call == read_calls'[Len(read_calls')]
        IN /\ metrics'.errors = metrics.errors + 1
           /\ metrics'.indexed = metrics.indexed
           /\ metrics'.skipped = metrics.skipped
           /\ file_index' = file_index
           /\ Len(log') = Len(log) + 1
           /\ SubSeq(log', 1, Len(log)) = log
           /\ log'[Len(log')].severity_text = "WARNING"
           /\ log'[Len(log')].severity_number = 13
           /\ log'[Len(log')].file_path = PathStr(call.path)
           /\ log'[Len(log')].error = ReadText(call.data).error
           /\ call.content = <<>>
           /\ call.path = PathJoin(cur_root, Head(pending).name)
           /\ pending' = Tail(pending)
           /\ pc' \in {"files", "walk"}

C6_StateInv ==
    /\ \A k \in DOMAIN read_calls : Cardinality(ReadsOf(read_calls[k].path)) = 1
    /\ \A k \in DOMAIN read_calls :
          ~ReadText(read_calls[k].data).ok =>
              /\ Cardinality(EventsAbout(PathStr(read_calls[k].path))) = 1
              /\ \A i \in DOMAIN file_index :
                    ~StartsWith(file_index[i],
                                <<"#", "#", "#", " ">>
                                \o PathStr(RelativeTo(read_calls[k].path, repo_path))
                                \o <<"\n">>)
    /\ pc = "done" => visited = WalkedFiles(tree, repo_path)

\* C6: a failed read adds 1 to errors and nothing to indexed or skipped,
\* emits exactly one WARNING event with the file's path and the error text,
\* adds no section, is not retried, and the loop goes on to the next file.
C6_ReadFailureIsLocal == [](C6_StateInv) /\ [][C6_Step]_vars

\* a file failed to be read and a later file was indexed
C6_Witness ==
    /\ pc = "done"
    /\ \E j, k \in DOMAIN read_calls :
          j < k /\ read_calls[j].content = <<>> /\ read_calls[k].content # <<>>
    /\ metrics.errors = 1
    /\ metrics.indexed = 1

(***************************************************************************)
(* C7.  How a run ends, and failures of directory enumeration.             *)
(***************************************************************************)
\* the run-end summary events
EndEvents ==
    { i \in DOMAIN log : "event_name" \in DOMAIN log[i] /\ log[i].event_name = "repo_scan_end" }

RECURSIVE C8_Fold(_, _, _)
C8_Fold(q, sep, n) ==
    IF n = 0 THEN <<>>
    ELSE IF n = 1 THEN q[1]
    ELSE C8_Fold(q, sep, n - 1) \o sep \o q[n]

\* the successful reads, in order
C8_Reads == SelectSeq(read_calls, LAMBDA c : c.content # <<>>)

\* the section of one successful read
C8_Section(c) ==
    LET rel == SubSeq(c.path.parts, Len(repo_path.parts) + 1, Len(c.path.parts))
    IN <<"#", "#", "#", " ">> \o C8_Fold(rel, <<"/">>, Len(rel)) \o <<"\n">> \o c.content[1]

\* C8: the Document is the sections of the successfully read files, in
\* traversal order, joined by single newlines; each section is "### " + the
\* path relative to the resolved root + "\n" + content; there are indexed
\* sections; char_count is the Document's length.
C8_Document ==
    pc = "done" =>
        LET secs == [k \in DOMAIN C8_Reads |-> C8_Section(C8_Reads[k])]
            doc == result[1]
        IN /\ file_index = secs
           /\ doc = C8_Fold(secs, <<"\n">>, Len(secs))
           /\ Len(secs) = metrics.indexed
           /\ metrics.char_count = Len(doc)
           /\ log[Len(log)].char_count = Len(doc)
           /\ log[Len(log)].file_indexed = Len(secs)
           /\ secs = <<>> => (doc = <<>> /\ metrics.char_count = 0)
           /\ [k \in DOMAIN C8_Reads |-> C8_Reads[k].path]
                 = SelectSeq(WalkedFiles(tree, repo_path),
                             LAMBDA p : \E k \in DOMAIN C8_Reads : C8_Reads[k].path = p)

\* a Document of two sections or more, one of a file in a subdirectory
C8_Witness ==
    /\ pc = "done"
    /\ metrics.indexed >= 2
    /\ \E k \in DOMAIN C8_Reads :
          Len(C8_Reads[k].path.parts) > Len(repo_path.parts) + 1
    /\ Len(repo_path.parts) = 2

(***************************************************************************)
(* C9.  The order of the skip rules.                                       *)
(***************************************************************************)
C9_ExtensionRule(p) == Lower(Suffix(p)) \in SKIP_EXTS

C9_NameRule(p) == PathName(p) \in SKIP_FILES

C9_TypeRule(p) ==
    /\ GuessType(p) # None
    /\ SubSeq(GuessType(p)[1], 1, 4) # <<"t", "e", "x", "t">>

\* the message of the first rule that matches p, "" when none does
C9_FirstRule(p) ==
    IF C9_ExtensionRule(p) THEN "Skipping by extension"
    ELSE IF C9_NameRule(p) THEN "Skipping by filename"
    ELSE IF C9_TypeRule(p) THEN "Skipping binary file"
    ELSE ""

\* C9: a visited file that matches a rule is counted in skipped once and
\* reported once, under the first of extension, name, content type that
\* matches; the extension is compared lower-cased; a file with no guessed
\* type is not skipped by the content-type rule.
C9_FirstRuleWins ==
    /\ \A i \in DOMAIN visited :
          LET p == visited[i]
              skips == SkipEventsAbout(PathStr(p))
          IN IF C9_FirstRule(p) = ""
             THEN skips = {} /\ Cardinality(ReadsOf(p)) = 1
             ELSE /\ Cardinality(skips) = 1
                  /\ \A e \in skips : log[e].message = C9_FirstRule(p)
                  /\ ReadsOf(p) = {}
    /\ metrics.skipped = Cardinality({ i \in DOMAIN visited : C9_FirstRule(visited[i]) # "" })
    /\ \A i \in DOMAIN visited :
          (GuessType(visited[i]) = None /\ ~C9_ExtensionRule(visited[i])
              /\ ~C9_NameRule(visited[i])) => ReadsOf(visited[i]) # {}

\* PIC.JPG (upper-case extension, image type) was skipped by extension, and
\* Makefile (no guessed type) was read
C9_Witness ==
    /\ \E i \in DOMAIN visited :
          /\ PathName(visited[i]) = <<"P", "I", "C", ".", "J", "P", "G">>
          /\ C9_TypeRule(visited[i])
          /\ \E e \in SkipEventsAbout(PathStr(visited[i])) :
                log[e].message = "Skipping by extension"
    /\ \E i \in DOMAIN visited :
          /\ PathName(visited[i]) = <<"M", "a", "k", "e", "f", "i", "l", "e">>
          /\ ReadsOf(visited[i]) # {}
    /\ metrics.skipped = 1

(***************************************************************************)
(* C10.  The event of a file skip.                                         *)
(***************************************************************************)
\* C10 as claimed: every file skipped, whatever the reason, has exactly one
\* skip event, carrying the reason, the file's name and the file's path, and
\* adds 1 to skipped; a file not skipped has no skip event and adds nothing.
C10_SkipEventNamesFile ==
    /\ \A i \in DOMAIN visited :
          LET p == visited[i]
              skips == SkipEventsAbout(PathStr(p))
          IN /\ Cardinality(skips) = IF ReadsOf(p) = {} THEN 1 ELSE 0
             /\ \A e \in skips :
                   /\ log[e].message \in SkipMessages
                   /\ "file_path" \in DOMAIN log[e]
                   /\ log[e].file_path = PathStr(p)
                   /\ "file_name" \in DOMAIN log[e]
                   /\ log[e].file_name = PathName(p)
    /\ metrics.skipped =
          Cardinality({ i \in DOMAIN visited : SkipEventsAbout(PathStr(visited[i])) # {} })

====
